---- MODULE Spec2Model ----
(***************************************************************************)
(* Model of main.py: a FastAPI service with a lifespan hook that opens a   *)
(* Cloud SQL connector and a SQLAlchemy engine, and three routes (root,    *)
(* create item, list items) that take one scoped session per request.      *)
(*                                                                         *)
(* The lifespan hook and the request handlers are separate processes, one  *)
(* step per statement that touches shared state (the module globals, the   *)
(* connector and engine objects, the sessions, the items table).  Requests *)
(* may be served while the startup half of the hook is still running: the  *)
(* module itself has no readiness gate.  The shutdown half runs once no    *)
(* request is in flight, and no request starts after it began.             *)
(***************************************************************************)
EXTENDS Integers, Sequences, FiniteSets, TLC

\* Number of HTTP requests of one run.
NumReq == 2

Reqs == 1..NumReq

\* ItemCreate.name values posted by clients.
Names == {"foo", "bar"}

\* Messages of the exceptions the persistence layer raises.
Errors == {"connection lost", "timeout"}

\* Python's None for a module global, and a reference to the object made.
None == "None"
Ref == "ref"

VARIABLES
    lifespan,        \* position of the lifespan hook
    connector,       \* the Connector object: "absent", "open", "closed"
    engine,          \* the Engine object: "absent", "open", "disposed"
    db_connector,    \* module global: None or Ref
    db_engine,       \* module global: None or Ref
    DBSessionLocal,  \* module global: None or Ref
    verified,        \* SELECT 1 has succeeded on the engine
    fatal,           \* the except branch of startup has run (FATAL logged)
    closeLog,        \* close()/dispose() calls of shutdown, in order
    tableExists,     \* the items table exists in the database
    rows,            \* rows of the items table: [id, name]
    rows0,           \* rows the table held when the process started
    nextId,          \* next value of the id sequence of the table
    sessions,        \* sessions made by DBSessionLocal(): times each was closed
    req              \* the requests

dbvars == <<tableExists, rows, rows0, nextId>>
globals == <<connector, engine, db_connector, db_engine, DBSessionLocal>>
lifevars == <<lifespan, verified, fatal, closeLog>>
vars == <<lifespan, connector, engine, db_connector, db_engine, DBSessionLocal,
          verified, fatal, closeLog, tableExists, rows, rows0, nextId,
          sessions, req>>

\* class Item: one row of table "items"; id is the integer primary key.
Item(id, name) == [id |-> id, name |-> name]

\* A response: status 0 stands for "no response yet".
NoResponse == [status |-> 0, body |-> [none |-> TRUE]]

\* HTTPException(status_code, detail) as the JSON response FastAPI sends.
HTTPException(status_code, detail) ==
    [status |-> status_code, body |-> [detail |-> detail]]

\* A handler's return value, sent with status 200.
Returned(value) == [status |-> 200, body |-> value]

NotConnectedDetail == "Database is not connected."

Greeting == [Hello |-> "From FastAPI!"]

\* A request: its route (kind), the posted name, the position of the lifespan
\* hook when it arrived (at), its own position (pc), the session get_db gave
\* it (db, 0 for none), new_item.id (new_id, 0 for unset), the message of
\* the exception its handler caught (e), and its response.
NewRequest ==
    [kind |-> "none", name |-> "", at |-> "", pc |-> "idle", db |-> 0,
     new_id |-> 0, e |-> "", resp |-> NoResponse]

\* The database as the process finds it: no table, an empty table, or a
\* table that an earlier run of the service filled.
InitialTables ==
    { [exists |-> FALSE, rows |-> {}, next |-> 1],
      [exists |-> TRUE, rows |-> {}, next |-> 1],
      [exists |-> TRUE, rows |-> {Item(1, "foo")}, next |-> 2] }

Init ==
    /\ lifespan = "start"
    /\ connector = "absent"
    /\ engine = "absent"
    /\ db_connector = None
    /\ db_engine = None
    /\ DBSessionLocal = None
    /\ verified = FALSE
    /\ fatal = FALSE
    /\ closeLog = <<>>
    /\ \E t \in InitialTables :
          /\ tableExists = t.exists
          /\ rows = t.rows
          /\ rows0 = t.rows
          /\ nextId = t.next
    /\ sessions = <<>>
    /\ req = [r \in Reqs |-> NewRequest]

----------------------------------------------------------------------------
(* The lifespan hook: startup (lines 70-87), yield, shutdown (91-95).      *)

\* except Exception as e: print("FATAL: ..."); control falls through to yield.
lifespan_except ==
    /\ fatal' = TRUE
    /\ lifespan' = "yield"

\* get_db_connection, first half: db_connector = Connector().
get_db_connection_connector ==
    /\ lifespan = "start"
    /\ \/ /\ connector' = "open"
          /\ db_connector' = Ref
          /\ lifespan' = "create_engine"
          /\ UNCHANGED fatal
       \/ /\ lifespan_except
          /\ UNCHANGED <<connector, db_connector>>
    /\ UNCHANGED <<engine, db_engine, DBSessionLocal, verified, closeLog,
                   dbvars, sessions, req>>

\* A variant of get_db_connection_engine in which the sessionmaker is built
\* right after the engine, before the connection is tested.
get_db_connection_engine_early_sessionmaker ==
    /\ lifespan = "create_engine"
    /\ \/ /\ engine' = "open"
          /\ db_engine' = Ref
          /\ DBSessionLocal' = Ref
          /\ lifespan' = "test"
          /\ UNCHANGED fatal
       \/ /\ lifespan_except
          /\ UNCHANGED <<engine, db_engine, DBSessionLocal>>
    /\ UNCHANGED <<connector, db_connector, verified, closeLog,
                   dbvars, sessions, req>>

\* get_db_connection, second half: create_engine(...), returned and assigned
\* to db_engine.  No connection is opened yet.
get_db_connection_engine ==
    /\ lifespan = "create_engine"
    /\ \/ /\ engine' = "open"
          /\ db_engine' = Ref
          /\ lifespan' = "test"
          /\ UNCHANGED fatal
       \/ /\ lifespan_except
          /\ UNCHANGED <<engine, db_engine>>
    /\ UNCHANGED <<connector, db_connector, DBSessionLocal, verified, closeLog,
                   dbvars, sessions, req>>

\* with db_engine.connect() as conn: conn.execute(text("SELECT 1")).
lifespan_test ==
    /\ lifespan = "test"
    /\ \/ /\ connector = "open"
          /\ engine = "open"
          /\ verified' = TRUE
          /\ lifespan' = "create_all"
          /\ UNCHANGED fatal
       \/ /\ lifespan_except
          /\ UNCHANGED verified
    /\ UNCHANGED <<globals, closeLog, dbvars, sessions, req>>

\* A create_all that drops and recreates the table instead of checking first.
create_all_recreate(exists, rs) == {}

\* Base.metadata.create_all: CREATE TABLE only when the table is absent.
create_all(exists, rs) == IF exists THEN rs ELSE {}

\* Base.metadata.create_all(bind=conn); conn.commit().  The DDL takes effect
\* at the commit; a failure of either statement leaves the database as it was.
lifespan_create_all ==
    /\ lifespan = "create_all"
    /\ \/ /\ connector = "open"
          /\ rows' = create_all(tableExists, rows)
          /\ tableExists' = TRUE
          /\ lifespan' = "sessionmaker"
          /\ UNCHANGED fatal
       \/ /\ lifespan_except
          /\ UNCHANGED <<tableExists, rows>>
    /\ UNCHANGED <<globals, verified, closeLog, rows0, nextId, sessions, req>>

\* DBSessionLocal = sessionmaker(..., bind=db_engine); then yield.
lifespan_sessionmaker ==
    /\ lifespan = "sessionmaker"
    /\ DBSessionLocal' = Ref
    /\ lifespan' = "yield"
    /\ UNCHANGED <<connector, engine, db_connector, db_engine, verified, fatal,
                   closeLog, dbvars, sessions, req>>

InFlight(r) == req[r].pc \notin {"idle", "done"}

\* A shutdown that closes the connector only after a successful startup.
lifespan_close_connector_if_started ==
    /\ lifespan = "yield"
    /\ \A r \in Reqs : ~InFlight(r)
    /\ IF db_connector # None /\ DBSessionLocal # None
          THEN /\ connector' = "closed"
               /\ closeLog' = Append(closeLog, "db_connector.close")
          ELSE UNCHANGED <<connector, closeLog>>
    /\ lifespan' = "dispose"
    /\ UNCHANGED <<engine, db_connector, db_engine, DBSessionLocal, verified,
                   fatal, dbvars, sessions, req>>

\* After the yield: if db_connector: db_connector.close().  The hook resumes
\* once no request is in flight; close() and dispose() return normally.
lifespan_close_connector ==
    /\ lifespan = "yield"
    /\ \A r \in Reqs : ~InFlight(r)
    /\ IF db_connector # None
          THEN /\ connector' = "closed"
               /\ closeLog' = Append(closeLog, "db_connector.close")
          ELSE UNCHANGED <<connector, closeLog>>
    /\ lifespan' = "dispose"
    /\ UNCHANGED <<engine, db_connector, db_engine, DBSessionLocal, verified,
                   fatal, dbvars, sessions, req>>

\* if db_engine: db_engine.dispose(); the hook returns and the process stops.
lifespan_dispose_engine ==
    /\ lifespan = "dispose"
    /\ IF db_engine # None
          THEN /\ engine' = "disposed"
               /\ closeLog' = Append(closeLog, "db_engine.dispose")
          ELSE UNCHANGED <<engine, closeLog>>
    /\ lifespan' = "exit"
    /\ UNCHANGED <<connector, db_connector, db_engine, DBSessionLocal, verified,
                   fatal, dbvars, sessions, req>>

----------------------------------------------------------------------------
(* The request handlers.  A request is one of the three routes; create and *)
(* list first run the get_db dependency.                                   *)

Accepting == lifespan \notin {"dispose", "exit"}

\* Requests are taken in index order (they are interchangeable).
CanStart(r) ==
    /\ Accepting
    /\ req[r].pc = "idle"
    /\ IF r = 1 THEN TRUE ELSE req[r - 1].pc # "idle"

\* The request as the framework hands it to the route.
Arrive(r, kind, name) ==
    [req[r] EXCEPT !.kind = kind, !.name = name, !.at = lifespan]

\* A read_root whose greeting depends on the database being connected.
read_root_checks_db(r) ==
    /\ CanStart(r)
    /\ req' = [req EXCEPT ![r] =
                 [Arrive(r, "root", "") EXCEPT !.pc = "done",
                    !.resp = IF DBSessionLocal = None
                                THEN HTTPException(500, NotConnectedDetail)
                                ELSE Returned(Greeting)]]
    /\ UNCHANGED <<lifevars, globals, dbvars, sessions>>

\* @app.get("/"): return {"Hello": "From FastAPI!"}.
read_root(r) ==
    /\ CanStart(r)
    /\ req' = [req EXCEPT ![r] =
                 [Arrive(r, "root", "") EXCEPT !.pc = "done",
                                               !.resp = Returned(Greeting)]]
    /\ UNCHANGED <<lifevars, globals, dbvars, sessions>>

\* The dependency raised before its yield: the handler never runs.
Rejected(r, kind, name, detail) ==
    [Arrive(r, kind, name) EXCEPT !.pc = "done",
                                  !.resp = HTTPException(500, detail)]

\* The dependency yielded session number s to the handler.
Yielded(r, kind, name, s) ==
    [Arrive(r, kind, name) EXCEPT !.pc = "body", !.db = s]

\* A get_db that tests the engine global instead of the session factory:
\* with an engine but no factory, calling None raises TypeError, which the
\* framework turns into its own 500 response.
get_db_checks_engine(r, kind, name) ==
    /\ CanStart(r)
    /\ IF db_engine = None
          THEN /\ req' = [req EXCEPT ![r] =
                            Rejected(r, kind, name, NotConnectedDetail)]
               /\ UNCHANGED sessions
          ELSE IF DBSessionLocal = None
          THEN /\ req' = [req EXCEPT ![r] =
                            Rejected(r, kind, name, "Internal Server Error")]
               /\ UNCHANGED sessions
          ELSE /\ sessions' = Append(sessions, 0)
               /\ req' = [req EXCEPT ![r] =
                            Yielded(r, kind, name, Len(sessions) + 1)]
    /\ UNCHANGED <<lifevars, globals, dbvars>>

\* get_db up to its yield: HTTPException(500) when DBSessionLocal is None,
\* else a new session db = DBSessionLocal() handed to the handler.
get_db(r, kind, name) ==
    /\ CanStart(r)
    /\ IF DBSessionLocal = None
          THEN /\ req' = [req EXCEPT ![r] =
                            Rejected(r, kind, name, NotConnectedDetail)]
               /\ UNCHANGED sessions
          ELSE /\ sessions' = Append(sessions, 0)
               /\ req' = [req EXCEPT ![r] =
                            Yielded(r, kind, name, Len(sessions) + 1)]
    /\ UNCHANGED <<lifevars, globals, dbvars>>

\* The database can serve a statement of a session.
Reachable == connector = "open" /\ engine = "open" /\ tableExists

\* A create_item whose except clause drops the underlying message.
create_item_except_no_message(r, e) ==
    [req[r] EXCEPT !.pc = "finally", !.e = e,
        !.resp = HTTPException(500, "Failed to create item")]

\* create_item: except Exception as e: raise HTTPException(500, f"...{e}").
create_item_except(r, e) ==
    [req[r] EXCEPT !.pc = "finally", !.e = e,
        !.resp = HTTPException(500, "Failed to create item: " \o e)]

\* A create_item that numbers the row itself, from a counter it reads and
\* does not advance, instead of leaving the id to the primary-key sequence.
create_item_commit_own_id(r) ==
    /\ req[r].pc = "body" /\ req[r].kind = "create"
    /\ \/ /\ Reachable
          /\ rows' = rows \cup {Item(nextId, req[r].name)}
          /\ req' = [req EXCEPT ![r].new_id = nextId, ![r].pc = "refresh"]
          /\ UNCHANGED nextId
       \/ \E e \in Errors :
             /\ req' = [req EXCEPT ![r] = create_item_except(r, e)]
             /\ UNCHANGED <<rows, nextId>>
    /\ UNCHANGED <<lifevars, globals, tableExists, rows0, sessions>>

\* create_item: new_item = Item(name=item.name); db.add(new_item); db.commit().
\* The flush inside commit sends the INSERT, which draws the id from the
\* sequence, and the commit makes the row visible.  add, the INSERT or the
\* COMMIT may raise; a COMMIT that fails after the INSERT has consumed a
\* sequence value and set new_item.id, and its row is rolled back.
create_item_commit(r) ==
    /\ req[r].pc = "body" /\ req[r].kind = "create"
    /\ \/ /\ Reachable
          /\ rows' = rows \cup {Item(nextId, req[r].name)}
          /\ nextId' = nextId + 1
          /\ req' = [req EXCEPT ![r].new_id = nextId, ![r].pc = "refresh"]
       \/ \E e \in Errors :
             /\ req' = [req EXCEPT ![r] = create_item_except(r, e)]
             /\ UNCHANGED <<rows, nextId>>
       \/ \E e \in Errors :
             /\ Reachable
             /\ nextId' = nextId + 1
             /\ req' = [req EXCEPT ![r] =
                          [create_item_except(r, e) EXCEPT !.new_id = nextId]]
             /\ UNCHANGED rows
    /\ UNCHANGED <<lifevars, globals, tableExists, rows0, sessions>>

\* The row a SELECT by primary key finds.
RowById(id) == CHOOSE row \in rows : row.id = id

\* create_item: db.refresh(new_item); return new_item.
create_item_refresh(r) ==
    /\ req[r].pc = "refresh"
    /\ \/ /\ Reachable
          /\ \E row \in rows : row.id = req[r].new_id
          /\ req' = [req EXCEPT ![r].pc = "finally",
                       ![r].resp = Returned(RowById(req[r].new_id))]
       \/ \E e \in Errors :
             req' = [req EXCEPT ![r] = create_item_except(r, e)]
    /\ UNCHANGED <<lifevars, globals, dbvars, sessions>>

\* A query that returns the first row only.
query_all_first(rs) == IF rs = {} THEN {} ELSE {CHOOSE row \in rs : TRUE}

\* db.query(Item).all(): every row of the table, in no particular order.
query_all(rs) == rs

\* read_items: items = db.query(Item).all(); return items; or the except
\* clause: raise HTTPException(500, f"Failed to read items: {e}").
read_items(r) ==
    /\ req[r].pc = "body" /\ req[r].kind = "list"
    /\ \/ /\ Reachable
          /\ req' = [req EXCEPT ![r].pc = "finally",
                       ![r].resp = Returned([items |-> query_all(rows)])]
       \/ \E e \in Errors :
             req' = [req EXCEPT ![r].pc = "finally", ![r].e = e,
                       ![r].resp = HTTPException(500, "Failed to read items: " \o e)]
    /\ UNCHANGED <<lifevars, globals, dbvars, sessions>>

\* A get_db that closes the session after the yield without try/finally:
\* the close is skipped when the handler raised.
get_db_close_no_finally(r) ==
    /\ req[r].pc = "finally"
    /\ sessions' = IF req[r].e = "" THEN [sessions EXCEPT ![req[r].db] = @ + 1]
                                    ELSE sessions
    /\ req' = [req EXCEPT ![r].pc = "done"]
    /\ UNCHANGED <<lifevars, globals, dbvars>>

\* get_db after its yield: finally: db.close(); the response is sent.
get_db_close(r) ==
    /\ req[r].pc = "finally"
    /\ sessions' = [sessions EXCEPT ![req[r].db] = @ + 1]
    /\ req' = [req EXCEPT ![r].pc = "done"]
    /\ UNCHANGED <<lifevars, globals, dbvars>>

----------------------------------------------------------------------------

Next ==
    \/ get_db_connection_connector
    \/ get_db_connection_engine
    \/ lifespan_test
    \/ lifespan_create_all
    \/ lifespan_sessionmaker
    \/ lifespan_close_connector
    \/ lifespan_dispose_engine
    \/ \E r \in Reqs : read_root(r)
    \/ \E r \in Reqs, name \in Names : get_db(r, "create", name)
    \/ \E r \in Reqs : get_db(r, "list", "")
    \/ \E r \in Reqs : create_item_commit(r)
    \/ \E r \in Reqs : create_item_refresh(r)
    \/ \E r \in Reqs : read_items(r)
    \/ \E r \in Reqs : get_db_close(r)

Spec == Init /\ [][Next]_vars

----------------------------------------------------------------------------
(* Properties.                                                             *)

DbRoutes == {"create", "list"}

Done(r) == req[r].pc = "done"

NotConnectedResponse ==
    [status |-> 500, body |-> [detail |-> "Database is not connected."]]

\* C1: when startup failed to reach the database, the hook still reaches its
\* yield (the service runs), the session factory stays unset, and every
\* create-item and list-items request is answered at once with
\* 500 "Database is not connected." without being given a session.
C1_FailedStartupRejectsRequests ==
    fatal =>
        /\ lifespan \in {"yield", "dispose", "exit"}
        /\ DBSessionLocal = None
        /\ sessions = <<>>
        /\ \A r \in Reqs :
              req[r].kind \in DbRoutes =>
                 /\ Done(r)
                 /\ req[r].resp = NotConnectedResponse
                 /\ req[r].db = 0

\* C1 witness: startup failed after the connector and the engine were built,
\* and a create and a list that arrived after the failure were both rejected.
C1_Witness ==
    /\ fatal /\ connector = "open" /\ engine = "open"
    /\ \E c, l \in Reqs :
          /\ req[c].kind = "create" /\ req[l].kind = "list"
          /\ req[c].at = "yield" /\ req[l].at = "yield"
          /\ Done(c) /\ Done(l)
          /\ req[c].resp.status = 500 /\ req[l].resp.status = 500

\* The successful create-item requests (their response is the persisted row).
Created == {c \in Reqs : req[c].kind = "create" /\ req[c].resp.status = 200}

\* C3: no two rows of the items table share an identifier, every identifier
\* is non-null, and two successful creates return distinct non-null
\* identifiers, whatever their names.
C3_IdentifiersUnique ==
    /\ \A x, y \in rows : x.id = y.id => x = y
    /\ \A x \in rows : x.id >= 1
    /\ \A c \in Created : req[c].resp.body.id >= 1
    /\ \A c, d \in Created : c # d => req[c].resp.body.id # req[d].resp.body.id

\* C3 witness: two creates with the same name have both succeeded.
C3_Witness ==
    \E c, d \in Created :
        /\ c # d
        /\ Done(c) /\ Done(d)
        /\ req[c].name = req[d].name

\* C4: a request that passed the connected check holds exactly one session,
\* its own, open while the handler runs and closed exactly once when the
\* request is complete, after a result as after an error; requests that did
\* not pass hold none; with no request in flight no session is open.
C4_SessionScopedToRequest ==
    /\ \A r \in Reqs :
          /\ req[r].pc \in {"body", "refresh", "finally"} =>
                /\ req[r].db \in 1..Len(sessions)
                /\ sessions[req[r].db] = 0
          /\ (Done(r) /\ req[r].db # 0) =>
                /\ req[r].db \in 1..Len(sessions)
                /\ sessions[req[r].db] = 1
          /\ (Done(r) /\ req[r].kind \in DbRoutes /\ req[r].resp.status = 200) =>
                req[r].db # 0
          /\ req[r].kind \notin DbRoutes => req[r].db = 0
    /\ \A r, q \in Reqs : (r # q /\ req[r].db # 0) => req[r].db # req[q].db
    /\ Len(sessions) = Cardinality({r \in Reqs : req[r].db # 0})
    /\ (\A r \in Reqs : ~InFlight(r)) =>
          \A s \in 1..Len(sessions) : sessions[s] = 1

\* C4 witness: one request ended with a persistence error and one with a
\* result; both had a session and both sessions are closed.
C4_Witness ==
    \E r, q \in Reqs :
        /\ Done(r) /\ Done(q)
        /\ req[r].db # 0 /\ req[q].db # 0
        /\ req[r].e # "" /\ req[r].resp.status = 500
        /\ req[q].resp.status = 200
        /\ sessions = <<1, 1>>

\* C7: when the hook has returned, the connector and the engine that startup
\* made are closed and disposed, each once, the connector first, and a
\* resource startup never made was not touched.
C7_ShutdownReleasesResources ==
    lifespan = "exit" =>
        /\ connector \in {"absent", "closed"}
        /\ engine \in {"absent", "disposed"}
        /\ closeLog =
              (IF connector = "absent" THEN <<>> ELSE <<"db_connector.close">>)
              \o (IF engine = "absent" THEN <<>> ELSE <<"db_engine.dispose">>)

\* C7 witness: startup failed at the test query, after connector and engine
\* were built, and the process has stopped.
C7_Witness ==
    /\ lifespan = "exit"
    /\ fatal /\ ~verified
    /\ connector = "closed" /\ engine = "disposed"

\* The step in which list-items request r runs its query and gets a result.
ListStep(r) ==
    /\ req[r].kind = "list" /\ req[r].pc = "body"
    /\ req'[r].resp.status = 200

\* The step in which request r is served by the root route.
RootStep(r) == req[r].pc = "idle" /\ req'[r].kind = "root"

\* The step in which create-item or list-items request r arrives.
ArriveStep(r) == req[r].pc = "idle" /\ req'[r].kind \in DbRoutes

\* C2: the result of a list-items query is exactly the set of rows the table
\* holds at that moment: it is empty when the table started empty and no
\* create request was made; it holds, once, the row returned by every create
\* that has succeeded, with the posted name and a non-null identifier; and
\* every entry is a row the table started with or the row of a create request.
C2_ListReturnsTheTable ==
    [][\A r \in Reqs : ListStep(r) =>
          LET items == req'[r].resp.body.items IN
          /\ items = rows
          /\ (rows0 = {} /\ \A c \in Reqs : req[c].kind # "create") => items = {}
          /\ \A c \in Created :
                /\ req[c].resp.body \in items
                /\ req[c].resp.body.name = req[c].name
                /\ req[c].resp.body.id # 0
                /\ Cardinality({it \in items : it.id = req[c].resp.body.id}) = 1
          /\ \A it \in items :
                \/ it \in rows0
                \/ \E c \in Reqs : /\ req[c].kind = "create"
                                   /\ req[c].new_id = it.id
                                   /\ req[c].name = it.name
      ]_vars

\* C2 witness: on an initially empty table a create of "foo" succeeded and a
\* list that arrived once the service was up returned exactly that row.
C2_Witness ==
    /\ rows0 = {}
    /\ \E c \in Created, l \in Reqs :
          /\ Done(c) /\ Done(l)
          /\ req[c].name = "foo"
          /\ req[l].kind = "list" /\ req[l].resp.status = 200
          /\ req[l].resp.body.items = {req[c].resp.body}
          /\ req[c].resp.body.id # 0

\* The step in which the handler of request r catches a persistence error.
FailStep(r) == req[r].e = "" /\ req'[r].e # ""

\* C5: a persistence error in a handler becomes that request's response, a
\* 500 whose detail ends with the underlying message; the step that raises
\* it touches neither the lifespan hook, the globals, the table, the
\* sessions nor any other request, so the service keeps serving.
C5_PersistenceErrorBecomes500 ==
    /\ [](\A r \in Reqs : req[r].e # "" =>
             /\ req[r].e \in Errors
             /\ req[r].pc \in {"finally", "done"}
             /\ req[r].resp.status = 500
             /\ req[r].resp.body =
                   [detail |-> (IF req[r].kind = "create"
                                   THEN "Failed to create item: "
                                   ELSE "Failed to read items: ") \o req[r].e])
    /\ [][\A r \in Reqs : FailStep(r) =>
             /\ UNCHANGED <<lifevars, globals, tableExists, rows, sessions>>
             /\ \A q \in Reqs \ {r} : req'[q] = req[q]
         ]_vars

\* C5 witness: a create failed with "timeout", and the service, still
\* running, has served a list and holds no open session.
C5_Witness ==
    /\ lifespan = "yield"
    /\ \E r, q \in Reqs :
          /\ Done(r) /\ req[r].kind = "create" /\ req[r].e = "timeout"
          /\ req[r].resp =
                [status |-> 500,
                 body |-> [detail |-> "Failed to create item: timeout"]]
          /\ Done(q) /\ req[q].kind = "list" /\ req[q].resp.status = 200

\* C6: the root route answers the fixed greeting whatever the state, opens
\* no session, and leaves the table, the connector, the engine, the globals
\* and the sessions as they were.
C6_RootAlwaysGreets ==
    [][\A r \in Reqs : RootStep(r) =>
          /\ req'[r].resp = [status |-> 200, body |-> [Hello |-> "From FastAPI!"]]
          /\ req'[r].pc = "done"
          /\ req'[r].db = 0
          /\ UNCHANGED <<lifevars, globals, dbvars, sessions>>
      ]_vars

\* C6 witness: the root route was served before startup had begun and again
\* after startup had failed.
C6_Witness ==
    /\ fatal
    /\ \E r, q \in Reqs :
          /\ req[r].kind = "root" /\ req[r].at = "start" /\ Done(r)
          /\ req[q].kind = "root" /\ req[q].at = "yield" /\ Done(q)
          /\ req[r].resp.body = [Hello |-> "From FastAPI!"]
          /\ req[q].resp.body = [Hello |-> "From FastAPI!"]

\* C8: rows are never removed or changed and the table is never dropped;
\* only the commit of a create adds rows, one at a time; list, root, the
\* startup hook (also against an existing table) and shutdown leave the
\* rows as they are.
C8_RowsOnlyGrow ==
    [][/\ rows \subseteq rows'
       /\ tableExists => tableExists'
       /\ lifespan' # lifespan => rows' = rows
       /\ rows' # rows =>
             /\ Cardinality(rows' \ rows) = 1
             /\ \E c \in Reqs : /\ req[c].kind = "create" /\ req[c].pc = "body"
                                /\ req'[c].pc = "refresh"
       /\ \A r \in Reqs : (ListStep(r) \/ RootStep(r)) => rows' = rows
      ]_vars

\* C8 witness: a table with a row of an earlier run went through startup, a
\* create, a list and shutdown, and holds its old row and the new one.
C8_Witness ==
    /\ rows0 # {}
    /\ lifespan = "exit"
    /\ rows0 \subseteq rows /\ Cardinality(rows) = Cardinality(rows0) + 1
    /\ \E c \in Created, l \in Reqs : req[l].kind = "list" /\ req[l].resp.status = 200

\* C9: the session factory is set, and a request holds a session, only
\* after startup verified the connection and created the table; a request
\* that arrives while the factory is unset is rejected with
\* 500 "Database is not connected." and gets no session; once set, the
\* factory is never changed, and no request step changes it.
C9_SessionOnlyAfterStartup ==
    /\ []((DBSessionLocal # None \/ \E r \in Reqs : req[r].db # 0 \/ sessions # <<>>)
             => (verified /\ tableExists /\ connector # "absent" /\ engine # "absent"))
    /\ [][/\ DBSessionLocal # None => DBSessionLocal' = DBSessionLocal
          /\ req' # req => DBSessionLocal' = DBSessionLocal
          /\ \A r \in Reqs : (ArriveStep(r) /\ DBSessionLocal = None) =>
                /\ req'[r].resp = NotConnectedResponse
                /\ req'[r].pc = "done"
                /\ req'[r].db = 0
                /\ sessions' = sessions
         ]_vars

\* C9 witness: a create arrived while startup was between the test query
\* and the sessionmaker and was rejected; a later one was given a session.
C9_Witness ==
    \E r, q \in Reqs :
        /\ req[r].kind = "create" /\ req[r].at \in {"create_all", "sessionmaker"}
        /\ req[r].resp = NotConnectedResponse /\ req[r].db = 0
        /\ req[q].kind = "create" /\ req[q].at = "yield" /\ req[q].db # 0

\* C10: a create that ends with a server error has inserted no row, a create
\* that inserted a row answers with that row (posted name, generated id),
\* and no create inserts more than one row.
C10_CreateAllOrNothing ==
    \A c \in Reqs :
        (req[c].kind = "create" /\ req[c].pc \in {"finally", "done"}) =>
           /\ req[c].resp.status = 500 =>
                 ~ \E row \in rows : row.id = req[c].new_id /\ req[c].new_id # 0
           /\ (\E row \in rows : row.id = req[c].new_id) =>
                 req[c].resp = [status |-> 200,
                                body |-> [id |-> req[c].new_id, name |-> req[c].name]]

====
